---------------------------- MODULE Spec2Model ----------------------------
(***************************************************************************)
(* OCPP 1.6J central system (package ocpp, type Server): the connection    *)
(* supervisor (handleOCPPConnection), the envelope decoder                 *)
(* (processOCPPMessage), the action dispatcher (handleOCPPRequest), the    *)
(* session and energy handlers and the outbound TriggerMessage sender,     *)
(* over the chargers / transactions / meter_values tables; and the         *)
(* operations of the HTTP API on the same tables and server: starting and  *)
(* stopping the server, SimulateMeterValues and CreateStation.             *)
(*                                                                         *)
(* Numbers that travel as JSON numbers or as decimal strings are float64   *)
(* in the code; here they are fixed-point integers counting TENTHS, so     *)
(* 1500 Wh is 15000 and 2.5 is 25.  Go's int64(x) conversion is Trunc.     *)
(* Columns hold whole integers.  A nullable column is a set with at most   *)
(* one element: {} is SQL NULL.                                            *)
(***************************************************************************)
EXTENDS Integers, Sequences, FiniteSets, TLC

(* ------------------------------- bounds ------------------------------- *)
\* frames read in one run of Spec (envelope and dispatch)
MaxFrames == 3
\* MeterValues reports read in one run of SpecEnergy
MaxReports == 4
\* frames read in one run of SpecTx, and the last second of its wall clock
MaxTxFrames == 4
MaxTime == 1
\* frames read in one run of SpecRegistry
MaxRegFrames == 3
\* frames read in one run of SpecBoot
MaxBootFrames == 3
\* MeterValues reports read in one run of SpecStale
MaxStaleReports == 2
\* frames read in one run of SpecSession
MaxSessionFrames == 3
\* frames read in one run of SpecTwo
MaxTwoFrames == 3
\* frames read in one run of SpecAdmin
MaxAdminFrames == 2
\* requests of the HTTP API handled in one run
MaxAdminRequests == 3
\* frames read in one run of SpecStations
MaxStationFrames == 2

\* charge point identities (the {id} of /ocpp16/{id})
Ids == {"CP1", "CP2"}
\* physical websocket connections (*websocket.Conn instances)
Conns == {"A", "B"}

NULL == {}
Some(x) == {x}
TheVal(s) == CHOOSE x \in s : TRUE

(* ------------------------------ numbers ------------------------------- *)
\* Go int64(f) for a float64 f (given in tenths): truncation toward zero
Trunc(f) == IF f >= 0 THEN f \div 10 ELSE 0 - ((0 - f) \div 10)
\* a whole number n as a float64 in tenths
Whole(n) == n * 10
\* SQLite scalar MAX(a, b)
SqlMax(a, b) == IF a >= b THEN a ELSE b

(* ----------------------------- JSON values ---------------------------- *)
\* One decoded JSON value (interface{} after json.Unmarshal).  k is the
\* dynamic type; n the number (tenths) of a "num"; s the text of a "str".
\* A string that spells a decimal number has s = "#" and n the number it
\* spells; a string that spells an RFC3339 time has s = "@" and n the second.
JNum(n) == [k |-> "num", n |-> n, s |-> ""]
JStr(s) == [k |-> "str", n |-> 0, s |-> s]
JDec(n) == [k |-> "str", n |-> n, s |-> "#"]
JTime(t) == [k |-> "str", n |-> t, s |-> "@"]
JObj == [k |-> "obj", n |-> 0, s |-> ""]
JNull == [k |-> "null", n |-> 0, s |-> ""]

\* Go type assertions v.(string) and v.(float64) with the ok result dropped:
\* the zero value when the dynamic type differs (a missing map key is nil)
AsString(v) == IF v.k = "str" THEN v.s ELSE ""
AsFloat(v) == IF v.k = "num" THEN v.n ELSE 0
\* strconv.ParseFloat(valueStr, 64) of the string a value asserts to
ParseFloat(v) == IF v.k = "str" /\ v.s = "#" THEN [ok |-> TRUE, v |-> v.n]
                 ELSE [ok |-> FALSE, v |-> 0]
\* time.Parse(time.RFC3339, timestampStr) succeeds
ParsesRFC3339(v) == v.k = "str" /\ v.s = "@"

\* The payload object of a CALL: the OCPP fields the handlers read (a missing
\* key is JNull) and the meterValue array.  Each meterValue entry is
\* [timestamp, sampledValue: sequence of [measurand, value]].
NoFields == [chargePointModel |-> JNull, chargePointVendor |-> JNull,
             firmwareVersion |-> JNull, status |-> JNull, connectorId |-> JNull,
             idTag |-> JNull, meterStart |-> JNull, meterStop |-> JNull,
             transactionId |-> JNull, timestamp |-> JNull]
Payload(f, mv) == [f |-> f, meterValue |-> mv]
EmptyPayload == Payload(NoFields, <<>>)

\* A text frame.  arr: json.Unmarshal into []interface{} succeeded; el: the
\* array's elements; payload: the members of el[4] when that is an object.
Frame(el, p) == [arr |-> TRUE, el |-> el, payload |-> p]
NotAnArray == [arr |-> FALSE, el |-> <<>>, payload |-> EmptyPayload]
Call(uid, action, p) == Frame(<<JNum(20), JStr(uid), JStr(action), JObj>>, p)


(* ------------------------------- state -------------------------------- *)
VARIABLES
  now,          \* the wall clock, in seconds (time.Now())
  chargers,     \* table chargers: a set of rows, identity UNIQUE
  transactions, \* table transactions: rows in id (AUTOINCREMENT) order
  meter_values, \* table meter_values: rows in id order
  running,      \* Server.running
  connections,  \* Server.connections: identity -> connection, or NoConn
  mapUsers,     \* goroutines inside an access to Server.connections
  fatal,        \* the Go runtime has ended the process (fatal error)
  connPc,       \* per connection: where its handler goroutine is
  connId,       \* per connection: the identity of its URL
  pending,      \* per connection: the response handed to conn.WriteMessage
  frames,       \* frames read so far by all read loops
  tasks,        \* deferred TriggerMessage goroutines, by slot
  sent,         \* server-initiated CALLs written to connections, in order
  registered,   \* the connections that have registered, in the order they did
  statuses,     \* per identity: the statuses its StatusNotifications have reported
  awaiting,     \* per slot: the connection on which the response to the
                \* StatusNotification that started its goroutine is still unwritten
  http,         \* the last request of the HTTP API and the status it was answered with
  reported,     \* per identity: the register readings (Wh) its handler was given
  last          \* the last step of a read loop: its connection, frame, outcome

dbVars == <<chargers, transactions, meter_values>>
regVars == <<connections, mapUsers, fatal>>
connVars == <<connPc, connId, pending>>
vars == <<now, chargers, transactions, meter_values, running, connections,
          mapUsers, fatal, connPc, connId, pending, frames, tasks, sent, registered,
          statuses, awaiting, http, reported, last>>

NoConn == "none"
\* no request of the HTTP API has been handled (n counts them)
\* (v: the value_wh of a /api/dev/meter request, in tenths; valid: the
\* request passed the handler's validation of its fields)
NoRequest == [n |-> 0, op |-> "", identity |-> "", status |-> 0, v |-> 0, valid |-> TRUE]

(* ------------------------------- tables ------------------------------- *)
\* SELECT id FROM chargers WHERE identity = ?  (the rows that match)
ChargerRows(identity) == {r \in chargers : r.identity = identity}
\* a new chargers row as BootNotification's INSERT writes it
NewCharger(identity, model, vendor, firmware, t) ==
  [id |-> Cardinality(chargers) + 1, identity |-> identity, name |-> identity,
   model |-> model, vendor |-> vendor, firmware |-> firmware,
   last_seen |-> Some(t), total_energy_wh |-> NULL]

\* UPDATE chargers SET last_seen = ? WHERE identity = ?
TouchLastSeen(rows, identity, t) ==
  {IF r.identity = identity THEN [r EXCEPT !.last_seen = Some(t)] ELSE r : r \in rows}

\* the upsert written with ON CONFLICT(identity) DO NOTHING
UpsertChargerIgnoring(identity, model, vendor, firmware, t) ==
  IF ChargerRows(identity) = {}
  THEN chargers \cup {NewCharger(identity, model, vendor, firmware, t)}
  ELSE chargers

\* INSERT INTO chargers (...) VALUES (...) ON CONFLICT(identity) DO UPDATE SET
\* model, vendor, firmware, last_seen = excluded.*
UpsertCharger(identity, model, vendor, firmware, t) ==
  IF ChargerRows(identity) = {}
  THEN chargers \cup {NewCharger(identity, model, vendor, firmware, t)}
  ELSE {IF r.identity = identity
        THEN [r EXCEPT !.model = model, !.vendor = vendor,
                       !.firmware = firmware, !.last_seen = Some(t)]
        ELSE r : r \in chargers}

\* a confirmation payload (the map a handler returns)
Conf(status) == [status |-> status, currentTime |-> NULL, interval |-> NULL,
                 transactionId |-> NULL]
\* what a handler leaves behind: the tables, its confirmation, and whether it
\* started the deferred TriggerMessage goroutine
Result(ch, tx, conf, trig) ==
  [chargers |-> ch, transactions |-> tx, conf |-> conf, trigger |-> trig]

HeartbeatInterval == 300

(* ------------------------------ handlers ------------------------------ *)
\* Every handler takes the identity, the payload element of the CALL (el,
\* whose dynamic type decides payload.(map[string]interface{})), the payload's
\* members (p) and dbOk: whether the storage executes this handler's
\* statements (FALSE: every ExecContext / QueryRowContext returns an error).

handleBootNotificationRequest(chargePointId, el, p, dbOk) ==
  IF el.k # "obj" THEN Result(chargers, transactions, Conf("Rejected"), FALSE)
  ELSE IF ~dbOk THEN Result(chargers, transactions, Conf("Rejected"), FALSE)
  ELSE Result(UpsertCharger(chargePointId, AsString(p.f.chargePointModel),
                            AsString(p.f.chargePointVendor),
                            AsString(p.f.firmwareVersion), now),
              transactions,
              [Conf("Accepted") EXCEPT !.currentTime = Some(now),
                                       !.interval = Some(HeartbeatInterval)],
              FALSE)

\* a handler that asks for meter values when any connector reports Available
handleStatusNotificationRequestAnyConnector(chargePointId, el, p, dbOk) ==
  Result(IF dbOk THEN TouchLastSeen(chargers, chargePointId, now) ELSE chargers,
         transactions, Conf(""),
         el.k = "obj" /\ AsString(p.f.status) = "Available")

handleStatusNotificationRequest(chargePointId, el, p, dbOk) ==
  Result(IF dbOk THEN TouchLastSeen(chargers, chargePointId, now) ELSE chargers,
         transactions, Conf(""),
         el.k = "obj" /\ AsString(p.f.status) = "Available"
                      /\ AsFloat(p.f.connectorId) = Whole(1))

\* The cumulative-register readings of a report, in the order the two nested
\* loops reach them: entries whose timestamp does not parse are skipped, as
\* are samples with another measurand or a value that does not parse.
RECURSIVE EnergySamples(_)
EnergySamples(svs) ==
  IF svs = <<>> THEN <<>>
  ELSE LET sv == Head(svs)
           pf == ParseFloat(sv.value)
       IN (IF AsString(sv.measurand) = "Energy.Active.Import.Register" /\ pf.ok
           THEN <<pf.v>> ELSE <<>>) \o EnergySamples(Tail(svs))
RECURSIVE EnergyReadings(_)
EnergyReadings(mvs) ==
  IF mvs = <<>> THEN <<>>
  ELSE LET mv == Head(mvs)
       IN (IF ParsesRFC3339(mv.timestamp) THEN EnergySamples(mv.sampledValue)
           ELSE <<>>) \o EnergyReadings(Tail(mvs))

\* UPDATE chargers SET total_energy_wh = ? WHERE id = ?   with int64(valueWh)
UpdateTotalEnergy(rows, id, valueWh) ==
  {IF r.id = id THEN [r EXCEPT !.total_energy_wh = Some(Trunc(valueWh))] ELSE r
     : r \in rows}

\* a sample loop that stores the reading of a station it has no row for in a
\* row of its own
RECURSIVE ApplyReadingsCreating(_, _, _)
ApplyReadingsCreating(rows, chargePointId, readings) ==
  IF readings = <<>> THEN rows
  ELSE LET found == {r \in rows : r.identity = chargePointId}
           next == IF found = {}
                   THEN rows \cup {[NewCharger(chargePointId, "", "", "", now)
                                      EXCEPT !.total_energy_wh = Some(Trunc(Head(readings)))]}
                   ELSE UpdateTotalEnergy(rows, TheVal(found).id, Head(readings))
       IN ApplyReadingsCreating(next, chargePointId, Tail(readings))

\* the sample loop: per reading, find the charger and update its total
RECURSIVE ApplyReadings(_, _, _)
ApplyReadings(rows, chargePointId, readings) ==
  IF readings = <<>> THEN rows
  ELSE LET found == {r \in rows : r.identity = chargePointId}
           next == IF found = {} THEN rows
                   ELSE UpdateTotalEnergy(rows, TheVal(found).id, Head(readings))
       IN ApplyReadings(next, chargePointId, Tail(readings))

handleMeterValuesRequest(chargePointId, el, p, dbOk) ==
  LET seen == IF dbOk THEN TouchLastSeen(chargers, chargePointId, now) ELSE chargers
  IN IF el.k # "obj" \/ p.meterValue = <<>> \/ ~dbOk
     THEN Result(seen, transactions, Conf(""), FALSE)
     ELSE Result(ApplyReadings(seen, chargePointId, EnergyReadings(p.meterValue)),
                 transactions, Conf(""), FALSE)

\* INSERT INTO transactions (charger_id, tx_id, start_ts, start_meter_wh)
NewTransaction(chargerID, txID, t, meterStart) ==
  [id |-> Len(transactions) + 1, charger_id |-> chargerID, tx_id |-> txID,
   start_ts |-> t, start_meter_wh |-> Trunc(meterStart),
   stop_ts |-> NULL, stop_meter_wh |-> NULL, energy_wh |-> NULL]

\* txID := int(time.Now().Unix())
GenerateTxID == now

\* the handler with the error of the charger lookup dropped: chargerID keeps
\* its zero value and the INSERT goes ahead
handleStartTransactionRequestUnchecked(chargePointId, el, p, dbOk) ==
  IF el.k # "obj" \/ ~dbOk
  THEN Result(chargers, transactions, Conf("Invalid"), FALSE)
  ELSE LET txID == GenerateTxID
           rows == ChargerRows(chargePointId)
       IN Result(chargers,
                 Append(transactions,
                        NewTransaction(IF rows = {} THEN 0 ELSE TheVal(rows).id, txID,
                                       now, AsFloat(p.f.meterStart))),
                 [Conf("Accepted") EXCEPT !.transactionId = Some(txID)], FALSE)

\* a handler that refuses to start a transaction once the station has
\* reported a connector as Faulted
handleStartTransactionRequestGated(chargePointId, el, p, dbOk) ==
  IF el.k # "obj" \/ ~dbOk \/ ChargerRows(chargePointId) = {}
     \/ "Faulted" \in statuses[chargePointId]
  THEN Result(chargers, transactions, Conf("Invalid"), FALSE)
  ELSE LET txID == GenerateTxID
       IN Result(chargers,
                 Append(transactions,
                        NewTransaction(TheVal(ChargerRows(chargePointId)).id, txID,
                                       now, AsFloat(p.f.meterStart))),
                 [Conf("Accepted") EXCEPT !.transactionId = Some(txID)], FALSE)

handleStartTransactionRequest(chargePointId, el, p, dbOk) ==
  IF el.k # "obj" \/ ~dbOk \/ ChargerRows(chargePointId) = {}
  THEN Result(chargers, transactions, Conf("Invalid"), FALSE)
  ELSE LET txID == GenerateTxID
       IN Result(chargers,
                 Append(transactions,
                        NewTransaction(TheVal(ChargerRows(chargePointId)).id, txID,
                                       now, AsFloat(p.f.meterStart))),
                 [Conf("Accepted") EXCEPT !.transactionId = Some(txID)], FALSE)

\* the UPDATE below with energy_wh = ? - start_meter_wh, the MAX(0, ...) left out
CloseTransactionsUnclamped(txID, meterStop, t) ==
  [i \in 1..Len(transactions) |->
     IF transactions[i].tx_id = txID
     THEN [transactions[i] EXCEPT
             !.stop_ts = Some(t), !.stop_meter_wh = Some(meterStop),
             !.energy_wh = Some(meterStop - transactions[i].start_meter_wh)]
     ELSE transactions[i]]

\* UPDATE transactions SET stop_ts = ?, stop_meter_wh = ?,
\*   energy_wh = MAX(0, ? - start_meter_wh) WHERE tx_id = ?
CloseTransactions(txID, meterStop, t) ==
  [i \in 1..Len(transactions) |->
     IF transactions[i].tx_id = txID
     THEN [transactions[i] EXCEPT
             !.stop_ts = Some(t), !.stop_meter_wh = Some(meterStop),
             !.energy_wh = Some(SqlMax(0, meterStop - transactions[i].start_meter_wh))]
     ELSE transactions[i]]

\* a handler that also stores the stop reading as the charger's total
handleStopTransactionRequestStoringTotal(chargePointId, el, p, dbOk) ==
  IF el.k # "obj" THEN Result(chargers, transactions, Conf("Invalid"), FALSE)
  ELSE Result(IF dbOk
              THEN {IF r.identity = chargePointId
                    THEN [r EXCEPT !.total_energy_wh = Some(Trunc(AsFloat(p.f.meterStop)))]
                    ELSE r : r \in chargers}
              ELSE chargers,
              IF dbOk THEN CloseTransactions(Trunc(AsFloat(p.f.transactionId)),
                                             Trunc(AsFloat(p.f.meterStop)), now)
              ELSE transactions,
              Conf("Accepted"), FALSE)

handleStopTransactionRequest(chargePointId, el, p, dbOk) ==
  IF el.k # "obj" THEN Result(chargers, transactions, Conf("Invalid"), FALSE)
  ELSE Result(chargers,
              IF dbOk THEN CloseTransactions(Trunc(AsFloat(p.f.transactionId)),
                                             Trunc(AsFloat(p.f.meterStop)), now)
              ELSE transactions,
              Conf("Accepted"), FALSE)

handleAuthorizeRequest(chargePointId, el, p, dbOk) ==
  Result(chargers, transactions, Conf("Accepted"), FALSE)

\* a handler that registers a station it has no row for
handleHeartbeatRequestRegistering(chargePointId, el, p, dbOk) ==
  Result(IF ~dbOk THEN chargers
         ELSE IF ChargerRows(chargePointId) = {}
              THEN chargers \cup {NewCharger(chargePointId, "", "", "", now)}
              ELSE TouchLastSeen(chargers, chargePointId, now),
         transactions, [Conf("") EXCEPT !.currentTime = Some(now)], FALSE)

handleHeartbeatRequest(chargePointId, el, p, dbOk) ==
  Result(IF dbOk THEN TouchLastSeen(chargers, chargePointId, now) ELSE chargers,
         transactions, [Conf("") EXCEPT !.currentTime = Some(now)], FALSE)


(* ------------------------- envelope and dispatch ---------------------- *)
\* a frame the server writes: t = 3 CALLRESULT, t = 4 CALLERROR (with its
\* error code), t = 0 no frame (a nil response)
CallResult(messageId, conf) == [t |-> 3, id |-> messageId, code |-> "", conf |-> conf]
\* a CALLERROR built without the id of the CALL it answers
CallErrorWithoutId(messageId, code) == [t |-> 4, id |-> "", code |-> code, conf |-> Conf("")]
CallError(messageId, code) == [t |-> 4, id |-> messageId, code |-> code, conf |-> Conf("")]
NoResponse == [t |-> 0, id |-> "", code |-> "", conf |-> Conf("")]

\* What one call of processOCPPMessage does.  kind: "error" (returned an
\* error: the loop logs and continues), "nil" (nil response, nil error),
\* "response" (bytes to write back) or "panic" (the goroutine panicked).
\* handler: the handler function invoked, "" when none was.
Outcome(kind, handler, resp, res) ==
  [kind |-> kind, handler |-> handler, resp |-> resp,
   chargers |-> res.chargers, transactions |-> res.transactions,
   trigger |-> res.trigger]
Untouched == Result(chargers, transactions, Conf(""), FALSE)

\* the case labels of the switch on action
RegisteredActions == {"BootNotification", "StatusNotification", "MeterValues",
                      "StartTransaction", "StopTransaction", "Authorize", "Heartbeat"}
\* the switch's seven cases: the handler each one calls
ActionHandler(chargePointId, action, el, p, dbOk) ==
  CASE action = "BootNotification" -> handleBootNotificationRequest(chargePointId, el, p, dbOk)
    [] action = "StatusNotification" -> handleStatusNotificationRequest(chargePointId, el, p, dbOk)
    [] action = "MeterValues" -> handleMeterValuesRequest(chargePointId, el, p, dbOk)
    [] action = "StartTransaction" -> handleStartTransactionRequest(chargePointId, el, p, dbOk)
    [] action = "StopTransaction" -> handleStopTransactionRequest(chargePointId, el, p, dbOk)
    [] action = "Authorize" -> handleAuthorizeRequest(chargePointId, el, p, dbOk)
    [] action = "Heartbeat" -> handleHeartbeatRequest(chargePointId, el, p, dbOk)

\* a dispatcher that compares action names without regard to case
FoldCase(action) == IF action = "bootnotification" THEN "BootNotification" ELSE action
handleOCPPRequestFoldingCase(chargePointId, messageId, action, el, p, dbOk) ==
  IF FoldCase(action) \in RegisteredActions
  THEN LET res == ActionHandler(chargePointId, FoldCase(action), el, p, dbOk)
       IN Outcome("response", FoldCase(action), CallResult(messageId, res.conf), res)
  ELSE Outcome("response", "", CallError(messageId, "NotImplemented"), Untouched)

\* a dispatcher that leaves a CALL of an unknown action unanswered
handleOCPPRequestSilent(chargePointId, messageId, action, el, p, dbOk) ==
  IF action \in RegisteredActions
  THEN LET res == ActionHandler(chargePointId, action, el, p, dbOk)
       IN Outcome("response", action, CallResult(messageId, res.conf), res)
  ELSE Outcome("nil", "", NoResponse, Untouched)

\* default: [4, messageId, "NotImplemented", ...]; else [3, messageId, response]
handleOCPPRequest(chargePointId, messageId, action, el, p, dbOk) ==
  IF action \in RegisteredActions
  THEN LET res == ActionHandler(chargePointId, action, el, p, dbOk)
       IN Outcome("response", action, CallResult(messageId, res.conf), res)
  ELSE Outcome("response", "", CallError(messageId, "NotImplemented"), Untouched)

\* switch int(messageType): the float64 is truncated before it is compared
MessageType(v) == Trunc(v.n)

\* a decoder that answers the station's CALLRESULT and CALLERROR frames with a
\* CALLERROR of its own
processOCPPMessageAnswering(chargePointId, frame, dbOk) ==
  LET el == frame.el
      dropped == Outcome("error", "", NoResponse, Untouched)
  IN IF ~frame.arr THEN dropped
     ELSE IF Len(el) < 3 THEN dropped
     ELSE IF el[1].k # "num" THEN dropped
     ELSE IF el[2].k # "str" THEN dropped
     ELSE IF el[3].k # "str" THEN dropped
     ELSE CASE MessageType(el[1]) = 2 ->
                 IF Len(el) < 4 THEN Outcome("panic", "", NoResponse, Untouched)
                 ELSE handleOCPPRequest(chargePointId, el[2].s, el[3].s, el[4],
                                        frame.payload, dbOk)
            [] MessageType(el[1]) \in {3, 4} ->
                 Outcome("response", "", CallError(el[2].s, "NotSupported"), Untouched)
            [] OTHER -> dropped

processOCPPMessage(chargePointId, frame, dbOk) ==
  LET el == frame.el
      dropped == Outcome("error", "", NoResponse, Untouched)
  IN IF ~frame.arr THEN dropped
     ELSE IF Len(el) < 3 THEN dropped
     ELSE IF el[1].k # "num" THEN dropped
     ELSE IF el[2].k # "str" THEN dropped
     ELSE IF el[3].k # "str" THEN dropped
     ELSE CASE MessageType(el[1]) = 2 ->
                 \* ocppMessage[3] of a 3-element slice: index out of range
                 IF Len(el) < 4 THEN Outcome("panic", "", NoResponse, Untouched)
                 ELSE handleOCPPRequest(chargePointId, el[2].s, el[3].s, el[4],
                                        frame.payload, dbOk)
            [] MessageType(el[1]) \in {3, 4} ->
                 Outcome("nil", "", NoResponse, Untouched)
            [] OTHER -> dropped

(* ----------------------- deferred TriggerMessage ---------------------- *)
\* deferred goroutines that can be alive at the same time
Slots == {"T1", "T2"}
\* (res: what the goroutine that last ran in the slot logged when it ended)
IdleTask == [pc |-> "idle", id |-> "", conn |-> NoConn, res |-> ""]
Ended(res) == [IdleTask EXCEPT !.res = res]
FreeSlots == {t \in Slots : tasks[t].pc = "idle"}
\* the slot the next goroutine runs in
SpawnSlot == CHOOSE t \in FreeSlots : TRUE
\* go func() { time.Sleep(100ms); s.sendTriggerMessage(chargePointId, ...) }()
Spawn(chargePointId) ==
  [tasks EXCEPT ![CHOOSE t \in FreeSlots : TRUE] =
     [pc |-> "sleeping", id |-> chargePointId, conn |-> NoConn, res |-> ""]]

\* messageId := fmt.Sprintf("trigger_%s_%d", requestedMessage, time.Now().Unix())
TriggerMessageId(requestedMessage) == [prefix |-> "trigger", req |-> requestedMessage, unix |-> now]

(* ------------------------------- frames ------------------------------- *)
BootPayload(model) ==
  Payload([NoFields EXCEPT !.chargePointModel = JStr(model),
                           !.chargePointVendor = JStr("Y"),
                           !.firmwareVersion = JStr("1.0")], <<>>)
StatusPayload(status, connector) ==
  Payload([NoFields EXCEPT !.status = JStr(status),
                           !.connectorId = JNum(Whole(connector))], <<>>)
StartPayload(meterStart, ts) ==
  Payload([NoFields EXCEPT !.idTag = JStr("TAG"),
                           !.meterStart = JNum(Whole(meterStart)),
                           !.timestamp = JTime(ts)], <<>>)
StopPayload(txID, meterStop) ==
  Payload([NoFields EXCEPT !.transactionId = JNum(Whole(txID)),
                           !.meterStop = JNum(Whole(meterStop))], <<>>)
\* one meterValue entry, stamped t, with one sample per value
Sample(measurand, value) == [measurand |-> JStr(measurand), value |-> value]
MeterPayload(t, samples) ==
  Payload(NoFields, <<[timestamp |-> JTime(t), sampledValue |-> samples]>>)
RegisterSample(wh) == Sample("Energy.Active.Import.Register", JDec(Whole(wh)))
\* the same report carrying the transactionId of a transaction
MeterTxPayload(txID, t, samples) ==
  Payload([NoFields EXCEPT !.transactionId = JNum(Whole(txID))],
          <<[timestamp |-> JTime(t), sampledValue |-> samples]>>)

\* well-formed CALLs, one or two per action
BootCalls == {Call("u1", "BootNotification", BootPayload("X"))}
MeterCall(wh) == Call("u1", "MeterValues", MeterPayload(0, <<RegisterSample(wh)>>))
MeterTxCall(tx, wh) ==
  Call("u1", "MeterValues", MeterTxPayload(tx, 0, <<RegisterSample(wh)>>))
StartCall(wh, ts) == Call("u1", "StartTransaction", StartPayload(wh, ts))
StopCall(tx, wh) == Call("u1", "StopTransaction", StopPayload(tx, wh))
StatusCall(st, connector) == Call("u1", "StatusNotification", StatusPayload(st, connector))
OtherCalls == {Call("u1", "Heartbeat", EmptyPayload), Call("u1", "Authorize", EmptyPayload)}
\* CALLs whose payload element is not a JSON object (null, a string)
NonObjectCalls == {Frame(<<JNum(20), JStr("u1"), JStr("StopTransaction"), v>>, EmptyPayload) :
                     v \in {JNull, JStr("x")}}
\* well-formed CALLs with other unique ids: empty, and with capitals and blanks
IdCalls == {Call(uid, a, EmptyPayload) : uid \in {"", " U-1 "}, a \in {"Heartbeat", "Reset"}}
\* well-formed CALLs whose action the dispatcher does not know
UnknownCalls == {Call("u1", a, BootPayload("X")) : a \in {"DataTransfer", "bootnotification"}}

\* frames the envelope rules reject: each is a BootNotification CALL with one
\* thing wrong (so a frame that got through would leave a chargers row)
BootEl == <<JNum(20), JStr("u1"), JStr("BootNotification"), JObj>>
ShortFrames == {Frame(SubSeq(BootEl, 1, n), BootPayload("X")) : n \in 0..2}
BadTypeFrames == {Frame([BootEl EXCEPT ![1] = v], BootPayload("X")) :
                    v \in {JNum(10), JNum(50), JNum(25), JNum(0 - 20), JStr("2"), JNull}}
BadIdFrames == {Frame([BootEl EXCEPT ![2] = v], BootPayload("X")) : v \in {JNum(10), JNull}}
BadActionFrames == {Frame([BootEl EXCEPT ![3] = v], BootPayload("X")) : v \in {JNum(10), JObj}}
\* a CALL with no payload element
ThreeElementCalls == {Frame(SubSeq(BootEl, 1, 3), BootPayload("X"))}
\* answers of the station to server-initiated CALLs
StationAnswers == {Frame(<<JNum(30), JStr("u1"), JObj>>, EmptyPayload),
                   Frame(<<JNum(30), JStr("u1"), JStr("Accepted")>>, EmptyPayload),
                   Frame(<<JNum(40), JStr("u1"), JStr("GenericError"), JStr(""), JObj>>, EmptyPayload)}

(* -------------------------------- Init -------------------------------- *)
\* The tables outlive the process: at construction they hold what earlier
\* runs left.  The initial tables are those BootNotification leaves at second
\* 0 for none, one or both of the identities, with no transaction yet.
BootedRow(identity, n) ==
  [id |-> n, identity |-> identity, name |-> identity, model |-> "X", vendor |-> "Y",
   firmware |-> "1.0", last_seen |-> Some(0), total_energy_wh |-> NULL]
NoChargers == {}
OneCharger == {BootedRow("CP1", 1)}
TwoChargers == {BootedRow("CP1", 1), BootedRow("CP2", 2)}

\* (again: the step read the same frame from the same connection, with the same
\* storage outcome, as the read step before it)
NoStep == [conn |-> NoConn, frame |-> NotAnArray, dbOk |-> TRUE, kind |-> "", handler |-> "",
           again |-> FALSE]

\* New(db, logger): running, an empty connection map, no goroutine yet
InitWith(tables) ==
  /\ now = 0
  /\ chargers \in tables
  /\ transactions = <<>>
  /\ meter_values = <<>>
  /\ running = TRUE
  /\ connections = [i \in Ids |-> NoConn]
  /\ mapUsers = {}
  /\ fatal = FALSE
  /\ connPc = [c \in Conns |-> "free"]
  /\ connId = [c \in Conns |-> ""]
  /\ pending = [c \in Conns |-> NoResponse]
  /\ frames = 0
  /\ tasks = [t \in Slots |-> IdleTask]
  /\ sent = <<>>
  /\ registered = <<>>
  /\ statuses = [i \in Ids |-> {}]
  /\ awaiting = [t \in Slots |-> NoConn]
  /\ http = NoRequest
  /\ reported = [i \in Ids |-> {}]
  /\ last = NoStep

(* ------------------------------- actions ------------------------------ *)
\* the wall clock advances by a second
Tick ==
  /\ ~fatal /\ now < MaxTime
  /\ now' = now + 1
  /\ UNCHANGED <<registered, statuses, awaiting, http, dbVars, running, regVars, connVars, frames, tasks, sent, reported, last>>

\* handleOCPPConnection up to the map write: a station's request for
\* /ocpp16/{id} is upgraded, and the goroutine enters
\* s.connections[chargerID] = conn
Connect(c, id) ==
  /\ ~fatal /\ connPc[c] = "free"
  /\ connPc' = [connPc EXCEPT ![c] = "registering"]
  /\ connId' = [connId EXCEPT ![c] = id]
  /\ mapUsers' = mapUsers \cup {c}
  /\ UNCHANGED <<registered, statuses, awaiting, http, now, dbVars, running, connections, fatal, pending, frames, tasks,
                 sent, reported, last>>

\* a registration that keeps the entry an identity already has
RegisterConnKeepingFirst(c) ==
  /\ ~fatal /\ connPc[c] = "registering"
  /\ connections' = IF connections[connId[c]] = NoConn
                    THEN [connections EXCEPT ![connId[c]] = c]
                    ELSE connections
  /\ registered' = Append(registered, c)
  /\ mapUsers' = mapUsers \ {c}
  /\ connPc' = [connPc EXCEPT ![c] = "reading"]
  /\ UNCHANGED <<now, dbVars, running, fatal, connId, pending, frames, tasks, sent,
                 statuses, awaiting, http, reported, last>>

\* s.connections[chargerID] = conn takes effect; the read loop starts
RegisterConn(c) ==
  /\ ~fatal /\ connPc[c] = "registering"
  /\ connections' = [connections EXCEPT ![connId[c]] = c]
  /\ registered' = Append(registered, c)
  /\ mapUsers' = mapUsers \ {c}
  /\ connPc' = [connPc EXCEPT ![c] = "reading"]
  /\ UNCHANGED <<now, dbVars, running, fatal, connId, pending, frames, tasks, sent,
                 statuses, awaiting, http, reported, last>>

\* the register readings (whole Wh) a frame hands to the MeterValues handler
\* of a charger that has a row
ReadingsGiven(chargePointId, f, o) ==
  IF o.handler = "MeterValues" /\ f.el[4].k = "obj" /\ ChargerRows(chargePointId) # {}
  THEN {Trunc(EnergyReadings(f.payload.meterValue)[i]) :
          i \in 1..Len(EnergyReadings(f.payload.meterValue))}
  ELSE {}

\* the status a frame hands to the StatusNotification handler
StatusGiven(f, o) ==
  IF o.handler = "StatusNotification" /\ f.el[4].k = "obj"
  THEN {AsString(f.payload.f.status)} ELSE {}

\* a read loop that takes the next frame while the response to the frame
\* before it is still to be written
ReadFramePipelined(c, f, dbOk) ==
  LET o == processOCPPMessage(connId[c], f, dbOk)
  IN /\ ~fatal /\ connPc[c] \in {"reading", "writing"}
     /\ o.trigger => FreeSlots # {}
     /\ frames' = frames + 1
     /\ chargers' = o.chargers
     /\ transactions' = o.transactions
     /\ tasks' = IF o.trigger THEN Spawn(connId[c]) ELSE tasks
     /\ pending' = [pending EXCEPT ![c] = o.resp]
     /\ connPc' = [connPc EXCEPT ![c] =
                     CASE o.kind = "response" -> "writing"
                       [] o.kind = "panic" -> "panicked"
                       [] OTHER -> "reading"]
     /\ reported' = [reported EXCEPT ![connId[c]] =
                       @ \cup (IF dbOk THEN ReadingsGiven(connId[c], f, o) ELSE {})]
     /\ last' = [conn |-> c, frame |-> f, dbOk |-> dbOk, kind |-> o.kind,
                 handler |-> o.handler,
                 again |-> (last.conn = c /\ last.frame = f /\ last.dbOk = dbOk)]
     /\ statuses' = [statuses EXCEPT ![connId[c]] = @ \cup StatusGiven(f, o)]
     /\ awaiting' = IF o.trigger THEN [awaiting EXCEPT ![SpawnSlot] = c] ELSE awaiting
     /\ UNCHANGED <<registered, now, meter_values, running, regVars, connId, sent, http>>

\* One iteration of the read loop up to the write: conn.ReadMessage returns
\* frame f and processOCPPMessage runs on it.  An error is logged and the loop
\* continues; a nil response is not written; a panic unwinds the goroutine
\* through the deferred conn.Close() only, so delete(s.connections, ...) is
\* not reached (net/http recovers the panic and the process goes on).
ReadFrame(c, f, dbOk) ==
  LET o == processOCPPMessage(connId[c], f, dbOk)
  IN /\ ~fatal /\ connPc[c] = "reading"
     /\ o.trigger => FreeSlots # {}
     /\ frames' = frames + 1
     /\ chargers' = o.chargers
     /\ transactions' = o.transactions
     /\ tasks' = IF o.trigger THEN Spawn(connId[c]) ELSE tasks
     /\ pending' = [pending EXCEPT ![c] = o.resp]
     /\ connPc' = [connPc EXCEPT ![c] =
                     CASE o.kind = "response" -> "writing"
                       [] o.kind = "panic" -> "panicked"
                       [] OTHER -> "reading"]
     /\ reported' = [reported EXCEPT ![connId[c]] =
                       @ \cup (IF dbOk THEN ReadingsGiven(connId[c], f, o) ELSE {})]
     /\ last' = [conn |-> c, frame |-> f, dbOk |-> dbOk, kind |-> o.kind,
                 handler |-> o.handler,
                 again |-> (last.conn = c /\ last.frame = f /\ last.dbOk = dbOk)]
     /\ statuses' = [statuses EXCEPT ![connId[c]] = @ \cup StatusGiven(f, o)]
     /\ awaiting' = IF o.trigger THEN [awaiting EXCEPT ![SpawnSlot] = c] ELSE awaiting
     /\ UNCHANGED <<registered, now, meter_values, running, regVars, connId, sent, http>>

\* conn.WriteMessage(websocket.TextMessage, response) succeeds
WriteResponse(c) ==
  /\ ~fatal /\ connPc[c] = "writing"
  /\ connPc' = [connPc EXCEPT ![c] = "reading"]
  /\ pending' = [pending EXCEPT ![c] = NoResponse]
  /\ awaiting' = [t \in Slots |-> IF awaiting[t] = c THEN NoConn ELSE awaiting[t]]
  /\ UNCHANGED <<registered, statuses, http, now, dbVars, running, regVars, connId, frames, tasks,
                 sent, reported, last>>

\* conn.WriteMessage fails, or conn.ReadMessage returns an error (the peer
\* closed, the network failed): break, and the goroutine enters
\* delete(s.connections, chargerID)
LoopEnds(c) ==
  /\ ~fatal /\ connPc[c] \in {"reading", "writing"}
  /\ connPc' = [connPc EXCEPT ![c] = "unregistering"]
  /\ pending' = [pending EXCEPT ![c] = NoResponse]
  /\ mapUsers' = mapUsers \cup {c}
  /\ UNCHANGED <<registered, statuses, awaiting, http, now, dbVars, running, connections, fatal, connId, frames, tasks, sent,
                 reported, last>>

\* delete(s.connections, chargerID) takes effect; the deferred conn.Close() runs
Unregister(c) ==
  /\ ~fatal /\ connPc[c] = "unregistering"
  /\ connections' = [connections EXCEPT ![connId[c]] = NoConn]
  /\ mapUsers' = mapUsers \ {c}
  /\ connPc' = [connPc EXCEPT ![c] = "closed"]
  /\ UNCHANGED <<registered, statuses, awaiting, http, now, dbVars, running, fatal, connId, pending, frames, tasks, sent,
                 reported, last>>

\* sendTriggerMessage after the sleep: the goroutine enters the map read
\* conn, exists := s.connections[chargePointId]
TaskLookup(t) ==
  /\ ~fatal /\ tasks[t].pc = "sleeping"
  /\ tasks' = [tasks EXCEPT ![t].pc = "lookup"]
  /\ mapUsers' = mapUsers \cup {t}
  /\ UNCHANGED <<registered, statuses, awaiting, http, now, dbVars, running, connections, fatal, connVars, frames, sent,
                 reported, last>>

\* a lookup that, finding no entry, sleeps and tries again
TaskFoundRetrying(t) ==
  /\ ~fatal /\ tasks[t].pc = "lookup"
  /\ mapUsers' = mapUsers \ {t}
  /\ tasks' = IF connections[tasks[t].id] = NoConn
              THEN [tasks EXCEPT ![t].pc = "sleeping"]
              ELSE [tasks EXCEPT ![t].pc = "sending", ![t].conn = connections[tasks[t].id]]
  /\ UNCHANGED <<registered, statuses, awaiting, http, now, dbVars, running, connections, fatal, connVars, frames, sent,
                 reported, last>>

\* the map read returns: no entry (an error is logged and sendTriggerMessage
\* returns), or the connection the request will be written to
TaskFound(t) ==
  /\ ~fatal /\ tasks[t].pc = "lookup"
  /\ mapUsers' = mapUsers \ {t}
  /\ tasks' = IF connections[tasks[t].id] = NoConn
              THEN [tasks EXCEPT ![t] = Ended("not connected")]
              ELSE [tasks EXCEPT ![t].pc = "sending", ![t].conn = connections[tasks[t].id]]
  /\ awaiting' = IF connections[tasks[t].id] = NoConn
                 THEN [awaiting EXCEPT ![t] = NoConn] ELSE awaiting
  /\ UNCHANGED <<registered, statuses, http, now, dbVars, running, connections, fatal, connVars, frames, sent,
                 reported, last>>

\* a connection whose handler goroutine has not yet run conn.Close()
IsOpen(c) == connPc[c] \in {"registering", "reading", "writing", "unregistering"}

\* conn.WriteMessage(websocket.TextMessage, messageBytes): written when the
\* connection is still open, an error (logged) when it is closed
TaskSend(t) ==
  /\ ~fatal /\ tasks[t].pc = "sending"
  /\ sent' = IF IsOpen(tasks[t].conn)
             THEN Append(sent, [conn |-> tasks[t].conn, to |-> tasks[t].id,
                                action |-> "TriggerMessage",
                                id |-> TriggerMessageId("MeterValues")])
             ELSE sent
  /\ tasks' = [tasks EXCEPT ![t] =
                 Ended(IF IsOpen(tasks[t].conn) THEN "sent" ELSE "write failed")]
  /\ awaiting' = [awaiting EXCEPT ![t] = NoConn]
  /\ UNCHANGED <<registered, statuses, http, now, dbVars, running, regVars, connVars, frames, reported, last>>

\* Server.connections is a plain Go map with no lock: when a goroutine writes
\* it while another one reads or writes it, the runtime may detect the race
\* ("fatal error: concurrent map writes") and end the process, or not.
Writers == {c \in Conns : connPc[c] \in {"registering", "unregistering"}}
RuntimeFatal ==
  /\ ~fatal
  /\ Cardinality(mapUsers) >= 2 /\ mapUsers \cap Writers # {}
  /\ fatal' = TRUE
  /\ UNCHANGED <<registered, statuses, awaiting, http, now, dbVars, running, connections, mapUsers, connVars, frames, tasks,
                 sent, reported, last>>

\* the request after the last one, answered with the given status
Answered(op, identity, status) ==
  [n |-> http.n + 1, op |-> op, identity |-> identity, status |-> status, v |-> 0,
   valid |-> TRUE]
\* the same for a request whose fields are invalid: 400 Bad Request
Invalid(op, identity) == [Answered(op, identity, 400) EXCEPT !.valid = FALSE]

\* POST /api/settings/server/stop: Server.Stop() clears running
StopOCPPServer ==
  /\ ~fatal /\ http.n < MaxAdminRequests
  /\ running' = FALSE
  /\ http' = Answered("server/stop", "", 200)
  /\ UNCHANGED <<registered, statuses, awaiting, now, dbVars, regVars, connVars, frames, tasks,
                 sent, reported, last>>

\* POST /api/settings/server/start: Server.Start() sets running
StartOCPPServer ==
  /\ ~fatal /\ http.n < MaxAdminRequests
  /\ running' = TRUE
  /\ http' = Answered("server/start", "", 200)
  /\ UNCHANGED <<registered, statuses, awaiting, now, dbVars, regVars, connVars, frames, tasks,
                 sent, reported, last>>

\* Server.IsRunning()
IsRunning == running

\* validateIdentity: not empty, at most 64 characters, all of them among
\* A-Z a-z 0-9 _ - .  (of the identities requests carry here, "CP 1" has a blank)
ValidIdentity(identity) == identity \notin {"", "CP 1"}
\* a chargers row as CreateStation's INSERT writes it: identity, name, model
\* and vendor from the request (model and vendor left out: NULL, shown as the
\* empty string), the other columns NULL.  The column max_output_kw, which no
\* other operation reads, is not part of the rows.
CreatedCharger(identity, name) ==
  [id |-> Cardinality(chargers) + 1, identity |-> identity, name |-> name,
   model |-> "", vendor |-> "", firmware |-> "", last_seen |-> NULL,
   total_energy_wh |-> NULL]

\* a CreateStation whose INSERT is not stopped by the UNIQUE constraint
CreateStationUnchecked(identity, name, maxOutputKW) ==
  /\ ~fatal /\ http.n < MaxAdminRequests
  /\ IF ~ValidIdentity(identity) \/ (maxOutputKW # NULL /\ TheVal(maxOutputKW) < 0)
     THEN http' = Invalid("stations", identity) /\ UNCHANGED dbVars
     ELSE /\ chargers' = chargers \cup {CreatedCharger(identity, name)}
          /\ http' = Answered("stations", identity, 201)
          /\ UNCHANGED <<transactions, meter_values>>
  /\ UNCHANGED <<registered, statuses, awaiting, now, running, regVars, connVars, frames,
                 tasks, sent, reported, last>>

\* POST /api/stations with {identity, name, max_output_kw}: 400 when the
\* identity or max_output_kw is invalid, 409 when the INSERT fails on the
\* UNIQUE constraint of chargers.identity, else 201 with the new row
CreateStation(identity, name, maxOutputKW) ==
  /\ ~fatal /\ http.n < MaxAdminRequests
  /\ IF ~ValidIdentity(identity) \/ (maxOutputKW # NULL /\ TheVal(maxOutputKW) < 0)
     THEN http' = Invalid("stations", identity) /\ UNCHANGED dbVars
     ELSE IF ChargerRows(identity) # {}
     THEN http' = Answered("stations", identity, 409) /\ UNCHANGED dbVars
     ELSE /\ chargers' = chargers \cup {CreatedCharger(identity, name)}
          /\ http' = Answered("stations", identity, 201)
          /\ UNCHANGED <<transactions, meter_values>>
  /\ UNCHANGED <<registered, statuses, awaiting, now, running, regVars, connVars, frames,
                 tasks, sent, reported, last>>

\* INSERT INTO meter_values (transaction_id, ts, measurand, value)
NewMeterValue(transactionID, t, measurand, value) ==
  [id |-> Len(meter_values) + 1, transaction_id |-> transactionID, ts |-> t,
   measurand |-> measurand, value |-> value]
\* SELECT value FROM meter_values WHERE transaction_id IN (SELECT id FROM
\* transactions WHERE charger_id = ?) AND measurand = '...Register': the rows
\* (by index) the query ranges over
RegisterRows(txs, mvs, chargerID) ==
  {i \in 1..Len(mvs) :
     /\ mvs[i].measurand = "Energy.Active.Import.Register"
     /\ \E j \in 1..Len(txs) :
          txs[j].id = mvs[i].transaction_id /\ txs[j].charger_id = chargerID}
\* ... ORDER BY ts DESC LIMIT 1: the rows it may return (any of those that
\* share the greatest ts)
LatestRows(txs, mvs, chargerID) ==
  {i \in RegisterRows(txs, mvs, chargerID) :
     \A k \in RegisterRows(txs, mvs, chargerID) : mvs[k].ts <= mvs[i].ts}
\* UPDATE chargers SET total_energy_wh = COALESCE(total_energy_wh, 0) + ?
\* WHERE id = ?   with int64(incrementalEnergy)
AddTotalEnergy(rows, id, incrementalEnergy) ==
  {IF r.id = id
   THEN [r EXCEPT !.total_energy_wh =
           Some((IF @ = NULL THEN 0 ELSE TheVal(@)) + Trunc(incrementalEnergy))]
   ELSE r : r \in rows}

\* POST /api/dev/meter with {identity, ts, value_wh}; ts = NULL is the empty
\* string, for which the handler takes time.Now().  The transaction and the
\* meter value are inserted first; the "previous" reading is then selected
\* from the table that already holds the new row.
SimulateMeterValues(identity, ts, valueWh) ==
  LET timestamp == IF ts = NULL THEN now ELSE TheVal(ts)
      answer(status) == [Answered("dev/meter", identity, status) EXCEPT !.v = valueWh]
  IN /\ ~fatal /\ http.n < MaxAdminRequests
     /\ IF identity = "" \/ valueWh < 0
        THEN http' = [Invalid("dev/meter", identity) EXCEPT !.v = valueWh] /\ UNCHANGED dbVars
        ELSE IF ChargerRows(identity) = {}
        THEN http' = answer(404) /\ UNCHANGED dbVars
        ELSE LET chargerID == TheVal(ChargerRows(identity)).id
                 tx == NewTransaction(chargerID, now, timestamp, 0)
                 txs == Append(transactions, tx)
                 mvs == Append(meter_values,
                               NewMeterValue(tx.id, timestamp,
                                             "Energy.Active.Import.Register", valueWh))
             IN \E i \in LatestRows(txs, mvs, chargerID) :
                  LET incrementalEnergy == valueWh - mvs[i].value
                  IN /\ transactions' = txs
                     /\ meter_values' = mvs
                     /\ IF incrementalEnergy < 0
                        THEN chargers' = chargers /\ http' = answer(400)
                        ELSE /\ chargers' = AddTotalEnergy(chargers, chargerID,
                                                           incrementalEnergy)
                             /\ http' = answer(200)
     /\ UNCHANGED <<registered, statuses, awaiting, now, running, regVars, connVars, frames,
                    tasks, sent, reported, last>>

\* the supervisor of the connections C of stations I, reading frames of the
\* alphabet F, at most max of them, with storage outcomes D
Supervisor(C, I, F, D, max) ==
  \/ \E c \in C, id \in I : Connect(c, id)
  \/ \E c \in C : RegisterConn(c)
  \/ \E c \in C, f \in F, dbOk \in D : frames < max /\ ReadFrame(c, f, dbOk)
  \/ \E c \in C : WriteResponse(c)
  \/ \E c \in C : LoopEnds(c)
  \/ \E c \in C : Unregister(c)

\* the deferred TriggerMessage goroutines
Deferred ==
  \/ \E t \in Slots : TaskLookup(t)
  \/ \E t \in Slots : TaskFound(t)
  \/ \E t \in Slots : TaskSend(t)

(* --------------------------- specifications --------------------------- *)
\* Spec: envelope and dispatch.  One station, with or without a chargers row,
\* sends any frame of the envelope alphabet: a well-formed CALL of each action,
\* CALLs of unknown actions, the station's answers, and the malformed shapes.
EnvelopeFrames ==
  BootCalls \cup {MeterCall(1500), StartCall(5000, 0), StopCall(0, 5250),
                  StatusCall("Charging", 1)}
  \cup OtherCalls \cup UnknownCalls \cup {NotAnArray} \cup ShortFrames
  \cup BadTypeFrames \cup BadIdFrames \cup BadActionFrames
  \cup ThreeElementCalls \cup StationAnswers \cup IdCalls
  \cup NonObjectCalls
Init == InitWith({NoChargers, OneCharger})
Next == Supervisor({"A"}, {"CP1"}, EnvelopeFrames, BOOLEAN, MaxFrames)
Spec == Init /\ [][Next]_vars

\* SpecEnergy: a registered station sends MeterValues reports, one register
\* reading each.
EnergyFrames == {MeterCall(wh) : wh \in {900, 1000, 1500, 1600}}
InitEnergy == InitWith({OneCharger})
NextEnergy == Supervisor({"A"}, {"CP1"}, EnergyFrames, {TRUE}, MaxReports)
SpecEnergy == InitEnergy /\ [][NextEnergy]_vars

\* SpecTx: a registered station starts and stops transactions while the clock
\* runs.
\* (one start is stamped with the second the run begins in, the other by a
\* station whose clock is ahead of every second the server's clock shows)
TxFrames == {StartCall(0, 0), StartCall(5000, MaxTime + 1)}
            \cup {StopCall(tx, wh) : tx \in 0..MaxTime, wh \in {4800, 5250}}
InitTx == InitWith({OneCharger})
NextTx == Tick \/ Supervisor({"A"}, {"CP1"}, TxFrames, BOOLEAN, MaxTxFrames)
SpecTx == InitTx /\ [][NextTx]_vars

\* SpecBoot: a station boots, with one model name or another, and reports its
\* register, while the clock runs.
BootFrames == BootCalls \cup {Call("u1", "BootNotification", BootPayload("Z")), MeterCall(1500)}
InitBoot == InitWith({NoChargers, OneCharger})
NextBoot == Tick \/ Supervisor({"A"}, {"CP1"}, BootFrames, {TRUE}, MaxBootFrames)
SpecBoot == InitBoot /\ [][NextBoot]_vars

\* SpecStale: a station reconnects while the handler of its earlier connection
\* is still running, and MeterValues reports arrive on both connections.
StaleFrames == {MeterCall(wh) : wh \in {900, 1500}}
InitStale == InitWith({OneCharger})
NextStale == Supervisor(Conns, {"CP1"}, StaleFrames, {TRUE}, MaxStaleReports)
SpecStale == InitStale /\ [][NextStale]_vars

\* SpecRegistry: two connections under one identity, the deferred
\* TriggerMessage goroutines a StatusNotification starts, and the runtime's
\* race detection on the connection map.
RegistryFrames == {StatusCall("Available", 1), Call("u1", "Heartbeat", EmptyPayload)}
InitRegistry == InitWith({OneCharger})
NextRegistry == \/ Supervisor(Conns, {"CP1"}, RegistryFrames, {TRUE}, MaxRegFrames)
                \/ Deferred
                \/ RuntimeFatal
SpecRegistry == InitRegistry /\ [][NextRegistry]_vars

\* SpecSession: one station, with or without a chargers row, sends CALLs of all
\* seven actions (StatusNotifications of two statuses and two connectors, a
\* MeterValues report with and without a transactionId) while the storage
\* works or fails, with the deferred TriggerMessage goroutines.
SessionFrames ==
  BootCalls \cup OtherCalls
  \cup {StatusCall(st, connector) : st \in {"Available", "Faulted"}, connector \in {1, 2}}
  \cup {MeterCall(1500), MeterTxCall(0, 1600), StartCall(0, 0), StopCall(0, 5250)}
InitSession == InitWith({NoChargers, OneCharger})
NextSession == \/ Supervisor({"A"}, {"CP1"}, SessionFrames, BOOLEAN, MaxSessionFrames)
               \/ Deferred
               \/ RuntimeFatal
SpecSession == InitSession /\ [][NextSession]_vars

\* SpecTwo: two stations, each with a chargers row, start and stop
\* transactions within one second, each on a connection of its own.
TwoFrames == {StartCall(0, 0), StopCall(0, 5250)}
InitTwo == InitWith({TwoChargers})
NextTwo == Supervisor(Conns, Ids, TwoFrames, {TRUE}, MaxTwoFrames)
SpecTwo == InitTwo /\ [][NextTwo]_vars

\* SpecAdmin: the server is stopped and started through the settings API
\* while a station connects and sends Heartbeats.
AdminFrames == {Call("u1", "Heartbeat", EmptyPayload)}
InitAdmin == InitWith({OneCharger})
NextAdmin == \/ StopOCPPServer
             \/ StartOCPPServer
             \/ Supervisor(Conns, {"CP1"}, AdminFrames, {TRUE}, MaxAdminFrames)
SpecAdmin == InitAdmin /\ [][NextAdmin]_vars

\* SpecDev: meter readings are simulated through /api/dev/meter for a station
\* that has a chargers row and for one that has none, stamped by the request
\* (second 0 or 1) or by the server's clock, while the clock runs.
DevIdentities == {"CP1", "CP2", ""}
DevStamps == {NULL, Some(0), Some(1)}
DevValues == {Whole(1000), Whole(1500), 0 - 10}
InitDev == InitWith({OneCharger})
NextDev == \/ Tick
           \/ \E identity \in DevIdentities, ts \in DevStamps, valueWh \in DevValues :
                SimulateMeterValues(identity, ts, valueWh)
SpecDev == InitDev /\ [][NextDev]_vars

\* SpecStations: stations are created through /api/stations, with valid and
\* invalid identities, while station CP1 connects and sends BootNotifications.
StationIdentities == {"CP1", "CP2", "", "CP 1"}
StationOutputs == {NULL, Some(Whole(11)), Some(0 - 10)}
InitStations == InitWith({NoChargers})
NextStations ==
  \/ Tick
  \/ \E identity \in StationIdentities, maxOutputKW \in StationOutputs :
       CreateStation(identity, "Garage", maxOutputKW)
  \/ Supervisor({"A"}, {"CP1"}, BootCalls, {TRUE}, MaxStationFrames)
SpecStations == InitStations /\ [][NextStations]_vars

(* ------------------------------ properties ---------------------------- *)
\* a step of a read loop: one more frame has been read (last' describes it)
ReadStep == frames' = frames + 1
\* the value of a stored total
Wh(col) == TheVal(col)
\* the one register reading (whole Wh) of a MeterValues report of the alphabets
ReadingOf(f) == f.payload.meterValue[1].sampledValue[1].value.n \div 10
\* a MeterValues report was read from the station of chargers row r and stored
ReportStored(r) ==
  /\ ReadStep /\ last'.handler = "MeterValues" /\ last'.dbOk
  /\ connId[last'.conn] = r.identity

\* C1: a charger's stored total energy never decreases: a report whose reading
\* is lower than the stored total leaves it unchanged, and a reading that is
\* greater or equal, or any reading while the total is NULL, replaces it.
C1_TotalNeverDecreases ==
  [][\A r \in chargers : \A q \in chargers' : q.identity = r.identity =>
       /\ r.total_energy_wh # NULL =>
            /\ q.total_energy_wh # NULL
            /\ Wh(q.total_energy_wh) >= Wh(r.total_energy_wh)
       /\ ReportStored(r) =>
            q.total_energy_wh =
              IF r.total_energy_wh = NULL
                 \/ ReadingOf(last'.frame) >= Wh(r.total_energy_wh)
              THEN Some(ReadingOf(last'.frame))
              ELSE r.total_energy_wh]_vars

\* the greatest element of a non-empty set of numbers
Greatest(S) == CHOOSE x \in S : \A y \in S : y <= x
\* C2: after the reports r1..rn of a charger have been processed in order,
\* its stored total is max(r1..rn), each reading taken as the reported
\* watt-hour number (1000, 1500, 900, 1600 leave 1000, 1500, 1500, 1600).
C2_TotalIsMaxOfReports ==
  \A r \in chargers : reported[r.identity] # {} =>
     r.total_energy_wh = Some(Greatest(reported[r.identity]))

\* the StopTransaction request of the last read step, when it was one that
\* the storage executed
StopRequested == last.handler = "StopTransaction" /\ last.dbOk /\ last.frame.el[4].k = "obj"
StopTxID == last.frame.payload.f.transactionId.n \div 10
StopMeter == last.frame.payload.f.meterStop.n \div 10
\* C3: a closed transaction's energy is max(0, meterStop - meterStart), never
\* negative: the rows a StopTransaction closes carry its meterStop, and every
\* closed row's energy_wh is the clamped difference of its two meter readings.
C3_EnergyIsClampedDifference ==
  \A i \in 1..Len(transactions) :
     LET tx == transactions[i]
     IN /\ tx.stop_ts # NULL =>
             /\ tx.stop_meter_wh # NULL /\ tx.energy_wh # NULL
             /\ Wh(tx.energy_wh) >= 0
             /\ Wh(tx.energy_wh) =
                  IF Wh(tx.stop_meter_wh) >= tx.start_meter_wh
                  THEN Wh(tx.stop_meter_wh) - tx.start_meter_wh
                  ELSE 0
        /\ (StopRequested /\ tx.tx_id = StopTxID) =>
             /\ tx.stop_ts # NULL
             /\ tx.stop_meter_wh = Some(StopMeter)
\* a StopTransaction with meterStop 4800 has closed a transaction started at
\* 5000, with energy 0
C3_Witness ==
  /\ StopRequested /\ StopMeter = 4800
  /\ \E i \in 1..Len(transactions) :
        /\ transactions[i].tx_id = StopTxID
        /\ transactions[i].start_meter_wh = 5000
        /\ transactions[i].stop_meter_wh = Some(4800)
        /\ transactions[i].energy_wh = Some(0)

\* C4: once a transaction has its stop fields set, no later step (a second
\* StopTransaction with the same transactionId included) changes the row, and
\* none returns it to the open state.
C4_StoppedStaysStopped ==
  [][\A i \in 1..Len(transactions) : transactions[i].stop_ts # NULL =>
       /\ Len(transactions') >= i
       /\ transactions'[i] = transactions[i]]_vars

\* C5: two transactions of the same charger that are both open never share a
\* transaction id.
C5_OpenTransactionIdsDistinct ==
  \A i, j \in 1..Len(transactions) :
     (/\ i # j
      /\ transactions[i].charger_id = transactions[j].charger_id
      /\ transactions[i].stop_ts = NULL /\ transactions[j].stop_ts = NULL)
     => transactions[i].tx_id # transactions[j].tx_id

\* C6: when a connection unregisters while the registry entry of its identity
\* holds another (newer) connection, the entry stays as it is.
C6_UnregisterKeepsNewerEntry ==
  [][\A c \in Conns :
       (/\ connPc[c] = "unregistering" /\ connPc'[c] = "closed"
        /\ connections[connId[c]] # c)
       => connections' = connections]_vars

\* C7: no two goroutines are inside an access to the connection registry at
\* the same time.
C7_RegistryAccessIsExclusive == Cardinality(mapUsers) <= 1

\* a frame that is a JSON array whose first element is the number 2 and that
\* has exactly 3 elements
IsThreeElementCall(f) == f.arr /\ Len(f.el) = 3 /\ f.el[1] = JNum(20)
\* the read step that last' describes dropped its frame: no handler ran, no
\* response is to be written, nothing stored changed, no goroutine started,
\* and the connection goes on reading
Dropped ==
  /\ last'.handler = ""
  /\ pending'[last'.conn] = NoResponse
  /\ dbVars' = dbVars /\ tasks' = tasks
  /\ connPc'[last'.conn] = "reading"
\* C8: a type-2 frame with only 3 elements is dropped as a malformed
\* envelope: no response, no handler, and the connection stays open.
C8_ThreeElementCallIsDropped ==
  [][(ReadStep /\ IsThreeElementCall(last'.frame)) => (last'.kind = "error" /\ Dropped)]_vars

\* a frame that is not a JSON array, or has fewer than 3 elements, or whose
\* first element is not one of 2, 3, 4, or whose second is not a string
IsMalformed(f) ==
  \/ ~f.arr
  \/ Len(f.el) < 3
  \/ f.el[1] \notin {JNum(20), JNum(30), JNum(40)}
  \/ f.el[2].k # "str"
\* C9: a malformed frame causes no handler invocation, no response and no
\* state change, and the read loop goes on to the next frame.
C9_MalformedFrameIsIgnored ==
  [][(ReadStep /\ IsMalformed(last'.frame)) => Dropped]_vars
\* the same for every malformed frame whose first element is not a number
\* that truncates to 2
C9_IgnoredUnlessTruncatesToCall ==
  [][(/\ ReadStep /\ IsMalformed(last'.frame)
      /\ ~(/\ last'.frame.arr /\ Len(last'.frame.el) >= 3
           /\ last'.frame.el[1].k = "num" /\ last'.frame.el[1].n \div 10 = 2))
     => Dropped]_vars

\* a well-formed CALL: [2, string, string, payload]
IsCall(f) ==
  /\ f.arr /\ Len(f.el) = 4
  /\ f.el[1] = JNum(20) /\ f.el[2].k = "str" /\ f.el[3].k = "str"
\* C10: a well-formed CALL whose action is not a registered one is answered
\* with a CALLERROR of code NotImplemented carrying the CALL's id, never with
\* a CALLRESULT, and changes no stored state.
C10_UnknownActionNotImplemented ==
  [][(/\ ReadStep /\ IsCall(last'.frame)
      /\ last'.frame.el[3].s \notin RegisteredActions)
     => /\ pending'[last'.conn].t = 4
        /\ pending'[last'.conn].code = "NotImplemented"
        /\ pending'[last'.conn].id = last'.frame.el[2].s
        /\ last'.handler = ""
        /\ dbVars' = dbVars /\ tasks' = tasks]_vars
\* the CALL "bootnotification" of a station without a chargers row has been
\* answered with the CALLERROR, and there is still no row
C10_Witness ==
  /\ IsCall(last.frame) /\ last.frame.el[3].s = "bootnotification"
  /\ last.conn # NoConn /\ pending[last.conn].t = 4
  /\ chargers = {}

CallRead(action) == ReadStep /\ IsCall(last'.frame) /\ last'.frame.el[3].s = action
\* C12: a StartTransaction received under an identity that has no chargers
\* row is answered with status Invalid and leaves the transactions unchanged.
C12_StartWithoutChargerInvalid ==
  [][(CallRead("StartTransaction") /\ ChargerRows(connId[last'.conn]) = {}) =>
       /\ pending'[last'.conn].t = 3
       /\ pending'[last'.conn].conf.status = "Invalid"
       /\ pending'[last'.conn].conf.transactionId = NULL
       /\ transactions' = transactions]_vars
\* a StartTransaction the storage executed has been answered Invalid for a
\* station without a row, and there is no transaction
C12_Witness ==
  /\ IsCall(last.frame) /\ last.frame.el[3].s = "StartTransaction" /\ last.dbOk
  /\ chargers = {} /\ transactions = <<>>
  /\ pending[last.conn].conf.status = "Invalid"

\* a StartTransaction CALL was read from a station that has a chargers row,
\* and the storage executed it
StartExecuted ==
  /\ CallRead("StartTransaction") /\ last'.dbOk
  /\ ChargerRows(connId[last'.conn]) # {}
\* the row the step added is the only new one, is open, belongs to the
\* station's charger, has the request's meterStart and start_ts = ts, and the
\* answer is Accepted with the row's tx_id
StartedRow(ts) ==
  LET new == transactions'[Len(transactions')]
      req == last'.frame.payload.f
  IN /\ Len(transactions') = Len(transactions) + 1
     /\ SubSeq(transactions', 1, Len(transactions)) = transactions
     /\ new.charger_id = TheVal(ChargerRows(connId[last'.conn])).id
     /\ new.stop_ts = NULL /\ new.stop_meter_wh = NULL /\ new.energy_wh = NULL
     /\ new.start_meter_wh = req.meterStart.n \div 10
     /\ new.start_ts = ts
     /\ pending'[last'.conn].t = 3
     /\ pending'[last'.conn].conf.status = "Accepted"
     /\ pending'[last'.conn].conf.transactionId = Some(new.tx_id)
\* C13: a StartTransaction for a known charger creates exactly one new open
\* transaction row for that charger whose start meter reading and start
\* timestamp are the request's, and returns the generated id with Accepted.
C13_StartCreatesRowAsRequested ==
  [][StartExecuted => StartedRow(last'.frame.payload.f.timestamp.n)]_vars
\* the same with the row stamped with the server's clock
C13_StartCreatesRowStampedByServer ==
  [][StartExecuted => StartedRow(now)]_vars

\* no transaction row has the transactionId the frame of last' asks to stop
NoneMatches ==
  \A i \in 1..Len(transactions) :
     transactions[i].tx_id # last'.frame.payload.f.transactionId.n \div 10
\* C14: StopTransaction always answers Accepted, for every request payload and
\* whether or not a transaction matches; when none matches the given
\* transactionId, no transaction row is changed.
C14_StopAlwaysAccepted ==
  [][CallRead("StopTransaction") =>
       /\ pending'[last'.conn].t = 3
       /\ pending'[last'.conn].conf.status = "Accepted"
       /\ NoneMatches => transactions' = transactions]_vars
\* the same for the requests whose payload is a JSON object
C14_StopOfObjectAccepted ==
  [][(CallRead("StopTransaction") /\ last'.frame.el[4].k = "obj") =>
       /\ pending'[last'.conn].t = 3
       /\ pending'[last'.conn].conf.status = "Accepted"
       /\ NoneMatches => transactions' = transactions]_vars

\* a BootNotification CALL with an object payload was read: its upsert ran
BootRead == CallRead("BootNotification") /\ last'.frame.el[4].k = "obj"
\* C15: BootNotification answers Accepted with interval 300 and the current
\* server time when the charger upsert succeeds, and Rejected with the same
\* interval 300 and the current time when the upsert fails; never a CALLERROR.
C15_BootAnswerHasIntervalAndTime ==
  [][BootRead =>
       /\ pending'[last'.conn].t = 3
       /\ pending'[last'.conn].conf.status = IF last'.dbOk THEN "Accepted" ELSE "Rejected"
       /\ pending'[last'.conn].conf.interval = Some(300)
       /\ pending'[last'.conn].conf.currentTime = Some(now)]_vars
\* the same, with the interval and the time asked only of the Accepted answer
C15_BootAcceptedHasIntervalAndTime ==
  [][BootRead =>
       /\ pending'[last'.conn].t = 3
       /\ pending'[last'.conn].conf.status = IF last'.dbOk THEN "Accepted" ELSE "Rejected"
       /\ last'.dbOk => /\ pending'[last'.conn].conf.interval = Some(300)
                        /\ pending'[last'.conn].conf.currentTime = Some(now)]_vars

\* the chargers rows of an identity in the next state
ChargerRowsNext(identity) == {r \in chargers' : r.identity = identity}
\* C16: BootNotification is idempotent on the chargers row: the same
\* BootNotification sent twice in a row under one identity leaves exactly one
\* row for it, with model, vendor, firmware, name and total energy (and id) as
\* after the first one, and only last_seen advanced.
C16_BootIsIdempotent ==
  [][(BootRead /\ last'.again /\ last'.dbOk) =>
       /\ Cardinality(ChargerRows(connId[last'.conn])) = 1
       /\ Cardinality(chargers') = Cardinality(chargers)
       /\ \A r \in ChargerRows(connId[last'.conn]) :
            /\ ChargerRowsNext(r.identity) = {[r EXCEPT !.last_seen = Some(now)]}
            /\ TheVal(r.last_seen) <= now]_vars
\* the second of two equal BootNotifications has been read a second after the
\* first, for a charger whose total is 1500: the total is kept
C16_Witness ==
  /\ last.again /\ last.dbOk /\ last.frame \in BootFrames
  /\ last.frame.el[3].s = "BootNotification"
  /\ now = 1
  /\ \E r \in chargers : r.total_energy_wh = Some(1500) /\ r.last_seen = Some(1)

\* the connections of an identity whose read loops are running
LiveConns(identity) ==
  {c \in Conns : connId[c] = identity /\ connPc[c] \in {"reading", "writing"}}
\* C17: when MeterValues reports of one charger are processed on two
\* connections that are live at the same time, the stored total is, whatever
\* the interleaving, the largest value reported, and it never decreases.
C17_ConcurrentReportsKeepLarger ==
  /\ \A r \in chargers :
       (Cardinality(LiveConns(r.identity)) = 2 /\ reported[r.identity] # {}) =>
          r.total_energy_wh = Some(Greatest(reported[r.identity]))

\* C18: when a connection's supervisor has ended, for whatever reason (the
\* read failed, the peer closed, a response could not be written, or the
\* processing of a frame failed), the registry holds no entry pointing at
\* that connection.
C18_EndedConnectionIsUnregistered ==
  \A c \in Conns : connPc[c] \in {"closed", "panicked"} =>
     \A i \in Ids : connections[i] # c
\* the same for the supervisors that ended by leaving the read loop
C18_ClosedConnectionIsUnregistered ==
  \A c \in Conns : connPc[c] = "closed" => \A i \in Ids : connections[i] # c

\* the connection that registered last under an identity
Latest(identity) ==
  LET s == SelectSeq(registered, LAMBDA c : connId[c] = identity)
  IN s[Len(s)]
C20_SendToUnconnectedIsNoOp ==
  [][\A t \in Slots :
       (/\ tasks[t].pc = "lookup" /\ tasks'[t] # tasks[t]
        /\ connections[tasks[t].id] = NoConn) =>
          /\ tasks'[t] = Ended("not connected")
          /\ sent' = sent
          /\ dbVars' = dbVars /\ connections' = connections /\ connVars' = connVars]_vars
\* a TriggerMessage goroutine has ended on "not connected", and nothing has
\* been written
C20_Witness ==
  /\ \E t \in Slots : tasks[t] = Ended("not connected")
  /\ sent = <<>>

\* a StartTransaction or StopTransaction CALL with an object payload was read
\* and the storage failed on the handler's statements
StorageFailed ==
  /\ (CallRead("StartTransaction") \/ CallRead("StopTransaction"))
  /\ last'.frame.el[4].k = "obj" /\ ~last'.dbOk
\* C21: when a handler other than BootNotification fails on storage (the
\* INSERT of StartTransaction, the UPDATE of StopTransaction), the station is
\* answered with a CALLERROR of code InternalError, not with a CALLRESULT.
C21_StorageFailureIsInternalError ==
  [][StorageFailed =>
       /\ pending'[last'.conn].t = 4
       /\ pending'[last'.conn].code = "InternalError"]_vars
\* what the handlers answer instead: a CALLRESULT, Invalid for StartTransaction
\* and Accepted for StopTransaction, with the tables as they were
C21_StorageFailureIsCallResult ==
  [][StorageFailed =>
       /\ pending'[last'.conn].t = 3
       /\ pending'[last'.conn].conf.status =
            IF last'.handler = "StartTransaction" THEN "Invalid" ELSE "Accepted"
       /\ dbVars' = dbVars]_vars

\* C22: on a connection every decoded CALL invokes exactly one handler, the
\* one of its action (none when the action is not a registered one), and the
\* handlers run in the order the frames are read: a frame is taken, and its
\* handler started, only when the frame before it on that connection has been
\* processed and its response written.
C22_OneHandlerPerCallInOrder ==
  [][ReadStep =>
       /\ connPc[last'.conn] = "reading"
       /\ pending[last'.conn] = NoResponse
       /\ \A c \in Conns \ {last'.conn} : connPc'[c] = connPc[c] /\ pending'[c] = pending[c]
       /\ IsCall(last'.frame) =>
            last'.handler = IF last'.frame.el[3].s \in RegisteredActions
                            THEN last'.frame.el[3].s ELSE ""]_vars
\* the second of two equal Heartbeat CALLs has been handled, after the first
\* was answered, and its own answer is about to be written
C22_Witness ==
  /\ frames = 2 /\ last.again /\ last.handler = "Heartbeat"
  /\ connPc[last.conn] = "writing" /\ pending[last.conn].t = 3

\* a frame whose first element is the number 3 (CALLRESULT) or 4 (CALLERROR)
IsStationAnswer(f) == f.arr /\ Len(f.el) >= 1 /\ f.el[1] \in {JNum(30), JNum(40)}
\* C23: a CALLRESULT or CALLERROR frame received from a station is discarded:
\* no handler runs, no response frame is produced, no stored state changes, no
\* goroutine starts, and the connection goes on reading.
C23_StationAnswerIsDiscarded ==
  [][(ReadStep /\ IsStationAnswer(last'.frame)) =>
       /\ last'.kind \in {"nil", "error"}
       /\ Dropped
       /\ sent' = sent /\ connections' = connections]_vars
\* the station's CALLERROR has been read as the second frame, for a station
\* with a chargers row, and the connection is reading on
C23_Witness ==
  /\ frames = 2 /\ last.kind = "nil"
  /\ Len(last.frame.el) = 5 /\ last.frame.el[1] = JNum(40)
  /\ connPc[last.conn] = "reading" /\ pending[last.conn] = NoResponse
  /\ chargers # {}

\* a chargers table with the last_seen column left out
WithoutLastSeen(rows) == {[r EXCEPT !.last_seen = NULL] : r \in rows}
\* C24: a StatusNotification changes no stored state other than last_seen (no
\* chargers row appears, no transaction is opened or closed, no total
\* changes), and it does not gate transactions: a StartTransaction of a
\* station that has a row is accepted whatever statuses were reported before.
C24_StatusOnlyTouchesLastSeen ==
  [][/\ CallRead("StatusNotification") =>
          /\ transactions' = transactions /\ meter_values' = meter_values
          /\ Cardinality(chargers') = Cardinality(chargers)
          /\ WithoutLastSeen(chargers') = WithoutLastSeen(chargers)
     /\ StartExecuted => StartedRow(now)]_vars
\* a StartTransaction has been accepted for a station that had reported
\* Faulted, and never Available, before
C24_Witness ==
  /\ last.handler = "StartTransaction" /\ last.conn # NoConn
  /\ statuses[connId[last.conn]] = {"Faulted"}
  /\ pending[last.conn].conf.status = "Accepted"
  /\ Len(transactions) = 1

\* the StatusNotification of the frame reports connector 1 as Available
ReportsConnectorOneAvailable(f) ==
  f.payload.f.status = JStr("Available") /\ f.payload.f.connectorId = JNum(10)
\* C25: a StatusNotification reporting connector 1 as Available starts exactly
\* one deferred task that will send the meter-values request to that station,
\* and the handler returns its confirmation without waiting for it (nothing
\* has been sent when the confirmation is ready); a StatusNotification with
\* another status or connector starts none.
C25_AvailableSchedulesOneTask ==
  [][CallRead("StatusNotification") =>
       /\ pending'[last'.conn] = CallResult(last'.frame.el[2].s, Conf(""))
       /\ connPc'[last'.conn] = "writing"
       /\ sent' = sent
       /\ IF ReportsConnectorOneAvailable(last'.frame)
          THEN \E t \in Slots :
                 /\ tasks[t].pc = "idle"
                 /\ tasks'[t].pc = "sleeping" /\ tasks'[t].id = connId[last'.conn]
                 /\ \A u \in Slots \ {t} : tasks'[u] = tasks[u]
          ELSE tasks' = tasks]_vars
\* the confirmation of an Available StatusNotification has been written and
\* the connection reads on, while the task it started is still asleep
C25_Witness ==
  /\ last.handler = "StatusNotification" /\ ReportsConnectorOneAvailable(last.frame)
  /\ connPc[last.conn] = "reading" /\ pending[last.conn] = NoResponse
  /\ Cardinality({t \in Slots : tasks[t].pc = "sleeping"}) = 1
  /\ sent = <<>>

\* C26: a charger's stored total energy is changed only by MeterValues
\* processing: a step that is not the read of a MeterValues CALL (the read of
\* a BootNotification, StatusNotification, Heartbeat, Authorize,
\* StartTransaction or StopTransaction, or any other step) leaves the total of
\* every chargers row as it was, and a row it creates has no total.
C26_TotalChangedOnlyByMeterValues ==
  [][(~ReadStep \/ last'.handler # "MeterValues") =>
       /\ \A r \in chargers : \E q \in chargers' :
            q.identity = r.identity /\ q.total_energy_wh = r.total_energy_wh
       /\ \A q \in chargers' : ChargerRows(q.identity) = {} => q.total_energy_wh = NULL]_vars
\* a StopTransaction has closed a transaction of a charger whose total is the
\* 1500 Wh of the MeterValues report before
C26_Witness ==
  /\ last.handler = "StopTransaction" /\ last.dbOk
  /\ \E i \in 1..Len(transactions) : transactions[i].stop_meter_wh = Some(5250)
  /\ \E r \in chargers : r.total_energy_wh = Some(1500)

\* C27: a chargers row is created only by BootNotification and is never
\* deleted: every row stays (with its id and identity), and a step after which
\* an identity has a row it had not is the read of a BootNotification under
\* that identity; StatusNotification, Heartbeat, MeterValues, Authorize,
\* StartTransaction and StopTransaction under an unknown identity create none.
C27_RowsCreatedOnlyByBoot ==
  [][/\ \A r \in chargers : \E q \in chargers' : q.identity = r.identity /\ q.id = r.id
     /\ \A q \in chargers' : ChargerRows(q.identity) = {} =>
          /\ ReadStep /\ last'.handler = "BootNotification"
          /\ q.identity = connId[last'.conn]
          /\ Cardinality(chargers') = Cardinality(chargers) + 1]_vars
\* three CALLs, a StatusNotification and last a MeterValues report among
\* them, have been processed for a station that still has no chargers row
C27_Witness ==
  /\ chargers = {} /\ frames = 3
  /\ last.handler = "MeterValues" /\ last.dbOk
  /\ last.conn # NoConn /\ statuses[connId[last.conn]] # {}

\* C28: a MeterValues CALL received under an identity that has no chargers
\* row is ignored: no chargers, transactions or meter_values row changes, the
\* answer is the normal empty CALLRESULT, and the connection stays open.
C28_MeterValuesOfUnknownIgnored ==
  [][(CallRead("MeterValues") /\ ChargerRows(connId[last'.conn]) = {}) =>
       /\ dbVars' = dbVars
       /\ pending'[last'.conn] = CallResult(last'.frame.el[2].s, Conf(""))
       /\ connPc'[last'.conn] = "writing"
       /\ tasks' = tasks]_vars
\* the report of a station without a row has been answered, and the
\* connection reads on with the tables still empty
C28_Witness ==
  /\ frames = 1 /\ last.handler = "MeterValues" /\ last.dbOk
  /\ chargers = {} /\ transactions = <<>> /\ meter_values = <<>>
  /\ connPc[last.conn] = "reading" /\ pending[last.conn] = NoResponse

\* a MeterValues CALL the storage executed, carrying the transactionId of a
\* transaction that exists
ReportOfTransaction ==
  /\ CallRead("MeterValues") /\ last'.dbOk
  /\ last'.frame.payload.f.transactionId.k = "num"
  /\ \E i \in 1..Len(transactions) :
       transactions[i].tx_id = last'.frame.payload.f.transactionId.n \div 10
\* C29: for every cumulative-register sample of a MeterValues report that
\* carries the id of an existing transaction, exactly one meter_values row is
\* appended; existing meter_values rows are never modified or removed.
C29_SampleAppendsMeterValueRow ==
  [][/\ ReportOfTransaction =>
          Len(meter_values') =
            Len(meter_values) + Len(EnergyReadings(last'.frame.payload.meterValue))
     /\ Len(meter_values') >= Len(meter_values)
     /\ SubSeq(meter_values', 1, Len(meter_values)) = meter_values]_vars
\* what the engine does: it never writes the meter_values table
C29_MeterValuesNeverWritten == [][meter_values' = meter_values]_vars

\* C30: every outbound CALL carries a fresh unique id: no two outbound CALLs,
\* to the same station or to different ones, are sent with the same id.
C30_OutboundIdsDistinct ==
  \A i, j \in 1..Len(sent) : i # j => sent[i].id # sent[j].id

\* the chargers.id of the station a connection belongs to
ChargerIdOf(c) == TheVal(ChargerRows(connId[c])).id
\* C31: charger identity partitions transaction state: a StopTransaction
\* received on one charger's connection never changes (stop timestamp, stop
\* meter, energy) a transactions row that belongs to another charger, even
\* when transactions of both were started at the same moment.
C31_StopLeavesOtherChargersRows ==
  [][CallRead("StopTransaction") =>
       \A i \in 1..Len(transactions) :
          transactions[i].charger_id # ChargerIdOf(last'.conn) =>
             transactions'[i] = transactions[i]]_vars
\* what the UPDATE does: it closes every row with the given tx_id and no other
C31_StopClosesRowsByTxIdAlone ==
  [][(CallRead("StopTransaction") /\ last'.dbOk) =>
       \A i \in 1..Len(transactions) :
          IF transactions[i].tx_id = last'.frame.payload.f.transactionId.n \div 10
          THEN transactions'[i].stop_ts # NULL
          ELSE transactions'[i] = transactions[i]]_vars

\* the goroutines that are in a conn.WriteMessage on connection c, or about
\* to enter it with nothing left to wait for: the read loop with a response to
\* write, and the TriggerMessage goroutines that found c
WritersOf(c) ==
  {t \in Slots : tasks[t].pc = "sending" /\ tasks[t].conn = c}
  \cup (IF connPc[c] = "writing" THEN {c} ELSE {})
\* C32: at most one task writes a frame to a station connection at a time:
\* the deferred TriggerMessage write never overlaps with the read loop's
\* response write on the same connection.
C32_OneWriterPerConnection ==
  \A c \in Conns : Cardinality(WritersOf(c)) <= 1

\* C33: every well-formed CALL read from an open connection is answered
\* with exactly one response frame, a CALLRESULT or a CALLERROR, written on
\* that connection before its next frame is read: the read hands one response
\* to the write, and while it is unwritten the connection reads nothing; the
\* loop goes back to reading only with the response written, or ends.
C33_CallAnsweredBeforeNextRead ==
  [][/\ (ReadStep /\ IsCall(last'.frame)) =>
          /\ pending'[last'.conn].t \in {3, 4}
          /\ connPc'[last'.conn] = "writing"
     /\ \A c \in Conns : connPc[c] = "writing" =>
          /\ pending[c].t \in {3, 4}
          /\ ~(ReadStep /\ last'.conn = c)
          /\ connPc'[c] \in {"writing", "reading", "unregistering"}
          /\ connPc'[c] # "writing" => pending'[c] = NoResponse]_vars
\* the answer to an Authorize CALL, the first frame of the connection, has
\* been written, and the connection is ready to read the next frame
C33_Witness ==
  /\ frames = 1 /\ IsCall(last.frame) /\ last.frame.el[3].s = "Authorize"
  /\ last.kind = "response"
  /\ connPc[last.conn] = "reading" /\ pending[last.conn] = NoResponse

\* C34: the TriggerMessage CALL scheduled by a StatusNotification (connector
\* 1, Available) is written to the station only after the CALLRESULT that
\* answers that StatusNotification has been written.
C34_TriggerWrittenAfterConfirmation ==
  [][\A t \in Slots :
       (tasks[t].pc = "sending" /\ tasks'[t].pc = "idle" /\ sent' # sent) =>
          awaiting[t] = NoConn]_vars

\* C35: Stop prevents new connections: while the server is stopped (between
\* a Stop() and the next Start()) no connection attempt is upgraded, read from
\* or registered, and IsRunning() is false from Stop() to Start() and true
\* after Start().
C35_StoppedServerRefusesConnections ==
  [][/\ ~running =>
          /\ \A c \in Conns : connPc[c] = "free" => connPc'[c] = "free"
          /\ \A c \in Conns : connPc[c] = "registering" => connections' = connections
     /\ http' # http => IsRunning' = (http'.op = "server/start")]_vars
\* the part the code keeps: IsRunning() is false after Stop() and true after
\* Start(), and nothing else changes the flag
C35_IsRunningFollowsStartAndStop ==
  [][/\ http' # http => IsRunning' = (http'.op = "server/start")
     /\ http' = http => IsRunning' = IsRunning]_vars

\* a step that handled a /api/dev/meter request (http' describes it)
Simulated == http'.n = http.n + 1 /\ http'.op = "dev/meter"
\* a stored total, NULL counting as 0
TotalOrZero(col) == IF col = NULL THEN 0 ELSE TheVal(col)
\* the most recent cumulative reading stored for a charger before the step
\* (greatest ts, the row stored last among equals), in tenths; 0 when it has none
PreviousReading(chargerID) ==
  LET rows == RegisterRows(transactions, meter_values, chargerID)
  IN IF rows = {} THEN 0
     ELSE meter_values[CHOOSE i \in rows : \A k \in rows :
                         \/ meter_values[k].ts < meter_values[i].ts
                         \/ meter_values[k].ts = meter_values[i].ts /\ k <= i].value
\* C36: a simulated reading v for a charger whose most recent previously
\* stored reading is p, p <= v, increases the charger's total energy by
\* exactly v - p (by v when the charger has no previous reading).
C36_SimulateAddsDifference ==
  [][\A r \in chargers :
       (/\ Simulated /\ http'.identity = r.identity
        /\ http'.v >= PreviousReading(r.id)) =>
          /\ http'.status = 200
          /\ \A q \in ChargerRowsNext(r.identity) :
               TotalOrZero(q.total_energy_wh) =
                 TotalOrZero(r.total_energy_wh) + (http'.v - PreviousReading(r.id)) \div 10]_vars
\* what the handler does with a reading stamped later than every stored one:
\* the reading it compares with is the row it has just inserted, so it adds 0
C36_NewestReadingAddsNothing ==
  [][\A r \in chargers :
       (/\ Simulated /\ http'.identity = r.identity /\ http'.status = 200
        /\ \A i \in RegisterRows(transactions, meter_values, r.id) :
             meter_values[i].ts < meter_values'[Len(meter_values')].ts) =>
          \A q \in ChargerRowsNext(r.identity) :
             TotalOrZero(q.total_energy_wh) = TotalOrZero(r.total_energy_wh)]_vars

\* C37: a /api/dev/meter request that is rejected with an error (unknown
\* charger, or negative incremental energy) leaves stored state unchanged: no
\* transactions row, no meter_values row and no change of a total.
C37_RejectedSimulationChangesNothing ==
  [][(Simulated /\ http'.status >= 400) => dbVars' = dbVars]_vars
\* the part that holds: a rejected request changes no chargers row, and one
\* rejected before the charger is found (validation, unknown charger) changes
\* no table
C37_RejectedSimulationKeepsChargers ==
  [][(Simulated /\ http'.status >= 400) =>
       /\ chargers' = chargers
       /\ (http'.v < 0 \/ ChargerRows(http'.identity) = {}) => dbVars' = dbVars]_vars

\* a step that handled a POST /api/stations request (http' describes it)
Created == http'.n = http.n + 1 /\ http'.op = "stations"
=============================================================================
